---------------------------- MODULE Spec2Model ----------------------------
(***************************************************************************)
(* jsonfsm: a JSON decoder built from coroutines, one per grammar rule,    *)
(* each fed one character per send().  A coroutine is modelled by the      *)
(* record of its local variables plus `pc', the line of the yield it is    *)
(* suspended at ("closed" once it has returned or raised).  X_send(g, c)   *)
(* is one g.send(c): it runs the body of X from the yield at g.pc to the   *)
(* next yield (or to a raise / the end of the body) and gives the new      *)
(* coroutine and what send() returned or raised.                           *)
(*                                                                         *)
(* Characters are code points (integers), strings are sequences of them.   *)
(***************************************************************************)
EXTENDS Integers, Sequences, FiniteSets, TLC

VARIABLES parser, fed, ret, result

vars == <<parser, fed, ret, result>>

---------------------------------------------------------------------------
(* Characters *)

\* Code points of the characters the model names (Python's ord()).
Ord ==
    ("0" :> 48) @@ ("1" :> 49) @@ ("2" :> 50) @@ ("3" :> 51) @@ ("4" :> 52) @@
    ("5" :> 53) @@ ("9" :> 57) @@
    ("-" :> 45) @@ ("+" :> 43) @@ ("." :> 46) @@ ("e" :> 101) @@ ("E" :> 69) @@
    ("\"" :> 34) @@ ("\\" :> 92) @@ ("/" :> 47) @@
    ("[" :> 91) @@ ("]" :> 93) @@ ("{" :> 123) @@ ("}" :> 125) @@
    ("," :> 44) @@ (":" :> 58) @@ (" " :> 32) @@ ("\n" :> 10) @@
    ("a" :> 97) @@ ("b" :> 98) @@ ("f" :> 102) @@ ("g" :> 103) @@ ("k" :> 107) @@
    ("l" :> 108) @@ ("n" :> 110) @@ ("r" :> 114) @@ ("s" :> 115) @@
    ("t" :> 116) @@ ("u" :> 117) @@ ("x" :> 120)

\* The characters the code names.
QUOTE == 34
BACKSLASH == 92
LOWER_U == 117
MINUS == 45
PLUS == 43
ZERO == 48
DOT == 46
LOWER_E == 101
UPPER_E == 69
LOWER_X == 120
LBRACKET == 91
RBRACKET == 93
COMMA == 44
LBRACE == 123
RBRACE == 125
COLON == 58

\* A text written as a tuple of one-character strings, as code points.
Text(s) == [i \in 1..Len(s) |-> Ord[s[i]]]

Front(s) == SubSeq(s, 1, Len(s) - 1)
Last(s) == s[Len(s)]

\* unicode.isdigit() and unicode.isspace() follow the character database of
\* Python 2.7 (Unicode 5.2.0).
\*
\* The ten decimal digits of a script are consecutive: DecimalZeros holds the
\* digit zero of each script (ASCII first, then ARABIC-INDIC U+0660 up to the
\* five mathematical sets from U+1D7CE).  One decimal digit stands outside
\* these runs: NEW TAI LUE THAM DIGIT ONE (U+19DA), of decimal value 1 in
\* Unicode 5.2.0, right after NEW TAI LUE DIGIT NINE (U+19D9).
DecimalZeros ==
    {48, 1632, 1776, 1984, 2406, 2534, 2662, 2790, 2918, 3046, 3174, 3302,
     3430, 3664, 3792, 3872, 4160, 4240, 6112, 6160, 6470, 6608, 6784, 6800,
     6992, 7088, 7232, 7248, 42528, 43216, 43264, 43472, 43600, 44016, 65296,
     66720, 120782, 120792, 120802, 120812, 120822}
NEW_TAI_LUE_THAM_DIGIT_ONE == 6618
DecimalDigits ==
    UNION {z..(z + 9) : z \in DecimalZeros} \cup {NEW_TAI_LUE_THAM_DIGIT_ONE}

\* Characters beyond ASCII that the texts of the model use: a decimal digit
\* of another script, a digit that is not decimal (1 with a full stop, U+2488)
\* and a white space.
ARABIC_INDIC_DIGIT_ONE == 1633
DIGIT_ONE_FULL_STOP == 9352
LINE_SEPARATOR == 8232

\* The superscripts U+00B2, U+00B3 and U+00B9.
SUPERSCRIPT_TWO == 178
SUPERSCRIPT_THREE == 179
SUPERSCRIPT_ONE == 185
\* Characters that are digits to isdigit() without being decimal digits: the
\* superscripts, ETHIOPIC DIGIT ONE to NINE (U+1369), the superscripts and
\* subscripts from U+2070, the circled,
\* parenthesized and full-stopped digits from U+2460, the dingbat digits from
\* U+2776, KHAROSHTHI DIGIT ONE to FOUR (U+10A40), RUMI DIGIT ONE to NINE
\* (U+10E60) and DIGIT ZERO FULL STOP to DIGIT NINE COMMA (U+1F100).
OtherDigits ==
    {SUPERSCRIPT_TWO, SUPERSCRIPT_THREE, SUPERSCRIPT_ONE,
     4969, 4970, 4971, 4972, 4973, 4974, 4975, 4976, 4977, 8304, 8308,
     8309, 8310, 8311, 8312, 8313, 8320, 8321, 8322, 8323, 8324, 8325, 8326,
     8327, 8328, 8329, 9312, 9313, 9314, 9315, 9316, 9317, 9318, 9319, 9320,
     9332, 9333, 9334, 9335, 9336, 9337, 9338, 9339, 9340, 9352, 9353, 9354,
     9355, 9356, 9357, 9358, 9359, 9360, 9450, 9461, 9462, 9463, 9464, 9465,
     9466, 9467, 9468, 9469, 9471, 10102, 10103, 10104, 10105, 10106, 10107,
     10108, 10109, 10110, 10112, 10113, 10114, 10115, 10116, 10117, 10118,
     10119, 10120, 10122, 10123, 10124, 10125, 10126, 10127, 10128, 10129,
     10130, 68160, 68161, 68162, 68163, 69216, 69217, 69218, 69219, 69220,
     69221, 69222, 69223, 69224, 127232, 127233, 127234, 127235, 127236,
     127237, 127238, 127239, 127240, 127241, 127242}

\* Py_UNICODE_TODECIMAL: the value of a decimal digit of any script, -1 for
\* every other character.
todecimal(c) ==
    IF c = NEW_TAI_LUE_THAM_DIGIT_ONE THEN 1
    ELSE IF c \in DecimalDigits
    THEN c - (CHOOSE z \in DecimalZeros : c \in z..(z + 9))
    ELSE 0 - 1

isdigit(c) == c \in DecimalDigits \cup OtherDigits

\* The white space of Unicode 5.2.0: the controls, SPACE, NEL and NO-BREAK
\* SPACE below U+0100, then OGHAM SPACE MARK, MONGOLIAN VOWEL SEPARATOR,
\* U+2000 to U+200A, the LINE and PARAGRAPH SEPARATORs, NARROW NO-BREAK SPACE,
\* MEDIUM MATHEMATICAL SPACE and IDEOGRAPHIC SPACE.
UnicodeSpaces ==
    {9, 10, 11, 12, 13, 28, 29, 30, 31, 32, 133, 160, 5760, 6158,
     8192, 8193, 8194, 8195, 8196, 8197, 8198, 8199, 8200, 8201, 8202,
     8232, 8233, 8239, 8287, 12288}
isspace(c) == c \in UnicodeSpaces

\* unicode.lower() on the code points below U+0100; the code compares the
\* result with 'e' only, and no character from U+0100 on lowers to 'e'.
lower(c) == IF c \in (65..90) \cup (192..214) \cup (216..222) THEN c + 32 ELSE c

---------------------------------------------------------------------------
(* Python values, and what a send() gives *)

NOT_PARSED_YET == [t |-> "NOT_PARSED_YET"]
\* A local variable that has not been assigned.
UNBOUND == [t |-> "unbound"]

\* A float is named by the shortest way to tell doubles apart.  From 1e-314 up
\* it is the decimal m * 10^e it was read from, with m not a multiple of 10
\* (0 is m = 0, e = 0): two decimals of up to nine digits are never the same
\* double there.  Below 1e-314 the doubles lie further apart than the decimals
\* and the float is the double itself, k * 2^-1074 (PySubnormal).  Beyond the
\* largest double it is an infinity.  Two floats are == in Python exactly when
\* these records are equal (0 == 0.0 == -0.0).
PyFloat(m, e) == [t |-> "float", cls |-> "finite", m |-> m, e |-> e]
PySubnormal(k) == [t |-> "float", cls |-> "subnormal", m |-> k, e |-> 0 - 1074]
PyInf(sign) == [t |-> "float", cls |-> "inf", m |-> sign, e |-> 0]
PyUnicode(s) == [t |-> "unicode", s |-> s]
PyNone == [t |-> "None"]
PyBool(b) == [t |-> "bool", b |-> b]
PyList(items) == [t |-> "list", items |-> items]
\* d: a function from keys (code point sequences) to values.
PyDict(d) == [t |-> "dict", d |-> d]

Raised(exc) == [t |-> "raise", exc |-> exc]
IsRaise(out) == out.t = "raise"

\* g.send(c) came back from a yield with `out'.
Yield(g, out) == [g |-> g, out |-> out]
\* g.send(c) raised: the coroutine is finished.
Raise(g, exc) == [g |-> [g EXCEPT !.pc = "closed"], out |-> Raised(exc)]

---------------------------------------------------------------------------
(* float() and int(_, 16) *)

\* The value of a string of ASCII digits.
RECURSIVE DigitsValue(_)
DigitsValue(s) ==
    IF s = <<>> THEN 0 ELSE 10 * DigitsValue(Front(s)) + (Last(s) - ZERO)

\* The first index of s holding a member of S, 0 if there is none.
FirstIn(s, S) ==
    IF \E i \in 1..Len(s) : s[i] \in S
    THEN CHOOSE i \in 1..Len(s) : s[i] \in S /\ \A j \in 1..(i - 1) : s[j] \notin S
    ELSE 0

RECURSIVE NumDigits(_)
NumDigits(n) == IF n < 10 THEN 1 ELSE 1 + NumDigits(n \div 10)

RECURSIVE Pow10(_)
Pow10(n) == IF n = 0 THEN 1 ELSE 10 * Pow10(n - 1)

RECURSIVE Normalize(_, _)
Normalize(m, e) ==
    IF m = 0 THEN PyFloat(0, 0)
    ELSE IF m % 10 = 0 THEN Normalize(m \div 10, e + 1)
    ELSE PyFloat(m, e)

\* float() and int() of a unicode string first encode it
\* (PyUnicode_EncodeDecimal): white space becomes a blank, a decimal digit of
\* any script the ASCII digit of its value, another character below U+0100
\* is kept, and any other character (U+0000 too) is UnicodeEncodeError.
Unencodable(s) ==
    \E i \in 1..Len(s) :
        ~isspace(s[i]) /\ todecimal(s[i]) < 0 /\ (s[i] = 0 \/ s[i] >= 256)
EncodeDecimal(s) ==
    [i \in 1..Len(s) |->
        IF isspace(s[i]) THEN 32
        ELSE IF todecimal(s[i]) >= 0 THEN ZERO + todecimal(s[i])
        ELSE s[i]]

\* Natural numbers too long for a machine word, as their digits in base
\* Limb (most significant first, leading zeros allowed; <<>> is 0).  The
\* operations split their operand in halves, the carry of the low half
\* going into the high half.
Limb == 100000000

\* a * d + carry for d up to 10, in Len(a) + 1 digits.
RECURSIVE TimesSmall(_, _, _)
RECURSIVE TimesSmallHigh(_, _, _)
TimesSmall(a, d, carry) ==
    IF a = <<>> THEN <<carry>>
    ELSE IF Len(a) = 1
    THEN <<(a[1] * d + carry) \div Limb, (a[1] * d + carry) % Limb>>
    ELSE TimesSmallHigh(SubSeq(a, 1, Len(a) \div 2), d,
                        TimesSmall(SubSeq(a, Len(a) \div 2 + 1, Len(a)), d, carry))
\* (the low half is computed before the high half is entered)
TimesSmallHigh(high, d, low) ==
    IF low = <<>> THEN <<>> ELSE TimesSmall(high, d, low[1]) \o Tail(low)

\* a + b + carry for a and b of the same length, in Len(a) + 1 digits.
RECURSIVE Plus(_, _, _)
RECURSIVE PlusHigh(_, _, _)
Plus(a, b, carry) ==
    IF a = <<>> THEN <<carry>>
    ELSE IF Len(a) = 1
    THEN <<(a[1] + b[1] + carry) \div Limb, (a[1] + b[1] + carry) % Limb>>
    ELSE PlusHigh(SubSeq(a, 1, Len(a) \div 2), SubSeq(b, 1, Len(a) \div 2),
                  Plus(SubSeq(a, Len(a) \div 2 + 1, Len(a)),
                       SubSeq(b, Len(a) \div 2 + 1, Len(a)), carry))
PlusHigh(a, b, low) ==
    IF low = <<>> THEN <<>> ELSE Plus(a, b, low[1]) \o Tail(low)

\* a with leading zeros, at least n digits long.
Pad(a, n) == IF Len(a) >= n THEN a ELSE [i \in 1..(n - Len(a)) |-> 0] \o a

\* a + b
Sum(a, b) == Plus(Pad(a, Len(b)), Pad(b, Len(a)), 0)

\* a * n for a machine-word n.
RECURSIVE Times(_, _)
Times(a, n) ==
    IF n = 0 THEN <<>>
    ELSE Sum(TimesSmall(Times(a, n \div 10), 10, 0), TimesSmall(a, n % 10, 0))

\* a * 10^n
RECURSIVE TimesPow10(_, _)
TimesPow10(a, n) == IF n = 0 THEN a ELSE TimesPow10(TimesSmall(a, 10, 0), n - 1)

RECURSIVE NatOf(_)
NatOf(a) == IF a = <<>> THEN 0 ELSE Limb * NatOf(Front(a)) + Last(a)

\* 2^1074: the doubles below 2^-1022 are the multiples of 2^-1074.
TwoTo1074 ==
    <<
      2024, 2253307, 31061835, 24953467, 18917307, 4955664, 97641421,
      18356901, 35802743, 3395679, 95346891, 96038370, 14371244, 95187077,
      86431681, 19113898, 8737385, 79347686, 70133999, 40738509, 92151742,
      42765663, 61364466, 90774209, 32163412, 39767678, 47274506, 85620074,
      83424692, 69861810, 33556491, 59556340, 81005651, 23587695, 52333414,
      61523050, 25321863, 27508646, 626330, 77077410, 93494784 >>

\* The limits of a double.  The largest is 1.7976931348623157e308: a decimal
\* of up to nine digits is beyond it when its exponent is above FloatMaxExp10,
\* or equal to it with the nine leading digits above FloatMaxLead.  A decimal
\* below 1e-324 (exponent FloatZeroExp10 or less) is less than half of
\* 2^-1074 and rounds to 0.0.  Up to the exponent FloatSubnormalExp10 (below
\* 1e-314) the double is computed by rounding to a multiple of 2^-1074.
FloatMaxExp10 == 308
FloatMaxLead == 179769313
FloatSubnormalExp10 == -315
FloatZeroExp10 == -325
\* Exponents of more digits than this are beyond every limit.
FloatExpDigits == 5

\* floor + 1 or floor: the rounding (half to even) of a number with that
\* integer part, whose fraction has the first digit `first' (base Limb) and
\* then only zeros unless `rest'.
RoundHalfEven(floor, first, rest) ==
    IF 2 * first > Limb \/ (2 * first = Limb /\ (rest \/ floor % 2 = 1))
    THEN floor + 1 ELSE floor

\* q / Limb^w rounded to an integer, for q of more than w digits.
RoundShift(q, w) ==
    RoundHalfEven(NatOf(SubSeq(q, 1, Len(q) - w)), q[Len(q) - w + 1],
                  \E i \in (Len(q) - w + 2)..Len(q) : q[i] # 0)

\* The decimal m * 10^e, 0 < m and e < 0, rounded to the nearest multiple of
\* 2^-1074: the multiple k = m * 2^1074 / 10^-e, where 10^-e is brought to a
\* power of Limb by multiplying both with a power of ten.
subnormal(m, e) ==
    RoundShift(Pad(TimesPow10(Times(TwoTo1074, m), (8 - ((0 - e) % 8)) % 8),
                   ((0 - e) + 7) \div 8 + 1),
               ((0 - e) + 7) \div 8)

\* The double sign * k * 2^-1074.
float_subnormal(sign, k) == IF k = 0 THEN PyFloat(0, 0) ELSE PySubnormal(sign * k)

\* The double nearest to sign * m * 10^e, for 0 < m of up to nine digits;
\* adj is the exponent of the first digit of m.
float_round(sign, m, e, adj) ==
    IF adj > FloatMaxExp10
       \/ (adj = FloatMaxExp10 /\ m * Pow10(9 - NumDigits(m)) > FloatMaxLead)
    THEN PyInf(sign)
    ELSE IF adj <= FloatZeroExp10 THEN PyFloat(0, 0)
    ELSE IF adj <= FloatSubnormalExp10
    THEN float_subnormal(sign, subnormal(m, e))
    ELSE Normalize(sign * m, e)

RECURSIVE StripZeros(_)
StripZeros(s) == IF s # <<>> /\ s[1] = ZERO THEN StripZeros(Tail(s)) ELSE s
RECURSIVE RStripZeros(_)
RStripZeros(s) == IF s # <<>> /\ Last(s) = ZERO THEN RStripZeros(Front(s)) ELSE s

\* The first index of s holding a member of S, Len(s) + 1 if there is none.
IndexIn(s, S) == IF FirstIn(s, S) = 0 THEN Len(s) + 1 ELSE FirstIn(s, S)

\* The parts of body = digits (. digits*)? ([eE] [-+]? digits)?: before and
\* after the e.
Mantissa(body) == SubSeq(body, 1, IndexIn(body, {LOWER_E, UPPER_E}) - 1)
Exponent(body) == SubSeq(body, IndexIn(body, {LOWER_E, UPPER_E}) + 1, Len(body))
\* The digits of a mantissa, and how many of them follow the point.
MantissaDigits(mant) ==
    SubSeq(mant, 1, IndexIn(mant, {DOT}) - 1)
    \o SubSeq(mant, IndexIn(mant, {DOT}) + 1, Len(mant))
FractionLen(mant) ==
    IF FirstIn(mant, {DOT}) = 0 THEN 0 ELSE Len(mant) - FirstIn(mant, {DOT})

\* The value of the exponent part ([-+]? digits, or nothing).
ExponentSign(expo) == IF expo # <<>> /\ expo[1] = MINUS THEN 0 - 1 ELSE 1
ExponentDigits(expo) ==
    IF expo # <<>> /\ expo[1] \in {MINUS, PLUS} THEN Tail(expo) ELSE expo
\* (digits without leading zeros)
ExponentDigitsValue(s) ==
    IF Len(s) > FloatExpDigits THEN Pow10(FloatExpDigits) ELSE DigitsValue(s)
ExponentValue(expo) ==
    ExponentSign(expo) * ExponentDigitsValue(StripZeros(ExponentDigits(expo)))

\* float() of an ASCII decimal, read in steps: the digits sig without zeros at
\* either end (up to nine of them),
float_significand(sign, sig, e) ==
    IF sig = <<>> THEN PyFloat(0, 0)
    ELSE float_round(sign, DigitsValue(sig), e, e + Len(sig) - 1)
\* the digits without leading zeros,
float_digits(sign, ds, e) ==
    float_significand(sign, RStripZeros(ds), e + Len(ds) - Len(RStripZeros(ds)))
\* the mantissa and the value of the exponent,
float_mantissa(sign, mant, e) ==
    float_digits(sign, StripZeros(MantissaDigits(mant)), e - FractionLen(mant))
\* the text after the sign,
float_unsigned(sign, body) ==
    float_mantissa(sign, Mantissa(body), ExponentValue(Exponent(body)))
\* and s = -? digits (. digits*)? ([eE] [-+]? digits)?.
float_decimal(s) ==
    float_unsigned(IF s[1] = MINUS THEN 0 - 1 ELSE 1,
                   IF s[1] = MINUS THEN Tail(s) ELSE s)

\* float() of an encoded string.
float_encoded(s) ==
    IF \E i \in 1..Len(s) :
            s[i] \notin (48..57) \cup {MINUS, PLUS, DOT, LOWER_E, UPPER_E}
    THEN Raised("ValueError")
    ELSE float_decimal(s)

\* float(s) for the strings number_fsm hands to it: -? digits (. digits*)?
\* ([eE] -? digits)?, where a digit is any character of isdigit().  A decimal
\* digit of another script counts as its value; a digit that is not decimal
\* is UnicodeEncodeError from U+0100 on and ValueError below (a superscript).
float(s) ==
    IF Unencodable(s) THEN Raised("UnicodeEncodeError")
    ELSE float_encoded(EncodeDecimal(s))

\* A character int(_, 16) reads as a digit: a hexadecimal digit, or a decimal
\* digit of any script (encoded to its ASCII digit first).
IsHexDigit(c) == c \in (97..102) \cup (65..70) \/ todecimal(c) >= 0
HexDigitValue(c) ==
    IF todecimal(c) >= 0 THEN todecimal(c)
    ELSE IF c \in 97..102 THEN c - 87 ELSE c - 55

RECURSIVE HexValue(_)
HexValue(s) ==
    IF s = <<>> THEN 0 ELSE 16 * HexValue(Front(s)) + HexDigitValue(Last(s))

RECURSIVE LStrip(_)
LStrip(s) == IF s # <<>> /\ isspace(s[1]) THEN LStrip(Tail(s)) ELSE s
RECURSIVE RStrip(_)
RStrip(s) == IF s # <<>> /\ isspace(Last(s)) THEN RStrip(Front(s)) ELSE s
\* unicode.strip()
Strip(s) == RStrip(LStrip(s))

\* int(s, 16) of Python 2, s a unicode string: s is encoded as for float(),
\* then white space around the literal is skipped (also between a sign and
\* the digits), then an optional sign, an optional 0x and at least one
\* hexadecimal digit.  The result is [ok, exc, n]: the value n, or with ok
\* FALSE the exception exc.  Read in steps: the digits d,
int16_digits(sign, d) ==
    IF d = <<>> \/ \E i \in 1..Len(d) : ~IsHexDigit(d[i])
    THEN [ok |-> FALSE, exc |-> "ValueError", n |-> 0]
    ELSE [ok |-> TRUE, exc |-> "", n |-> sign * HexValue(d)]
\* the literal u after the sign,
int16_literal(sign, u) ==
    int16_digits(sign,
                 IF Len(u) >= 2 /\ todecimal(u[1]) = 0 /\ lower(u[2]) = LOWER_X
                 THEN SubSeq(u, 3, Len(u)) ELSE u)
\* the text t without the white space around it,
int16_stripped(t) ==
    int16_literal(IF t # <<>> /\ t[1] = MINUS THEN 0 - 1 ELSE 1,
                  LStrip(IF t # <<>> /\ t[1] \in {MINUS, PLUS} THEN Tail(t) ELSE t))
\* and s.
int16(s) ==
    IF Unencodable(s) THEN [ok |-> FALSE, exc |-> "UnicodeEncodeError", n |-> 0]
    ELSE int16_stripped(Strip(s))

---------------------------------------------------------------------------
(* string_fsm *)

\* string_fsm(): the coroutine after @coroutine has run it to its first yield.
string_fsm == [fsm |-> "string_fsm", pc |-> "L88", value |-> <<>>, hexval |-> <<>>]

\* Line 105: value.append(unichr(int(hexval, 16))), then the loop's next yield.
string_fsm_unicode_escape(g) ==
    LET n == int16(g.hexval)
    IN  IF ~n.ok THEN Raise(g, n.exc)
        ELSE IF n.n < 0 THEN Raise(g, "ValueError")
        ELSE Yield([g EXCEPT !.value = Append(@, n.n), !.pc = "L93"], NOT_PARSED_YET)

\* Lines 98-105: the character after a backslash.
string_fsm_escape(g, c) ==
    IF c = LOWER_U
    THEN Yield([g EXCEPT !.hexval = <<>>, !.pc = "L103"], NOT_PARSED_YET)
    ELSE Yield([g EXCEPT !.pc = "L93"], NOT_PARSED_YET)

string_fsm_send(g, c) ==
    CASE g.pc = "L88" ->
            IF c # QUOTE THEN Raise(g, "JSONParseError")
            ELSE Yield([g EXCEPT !.pc = "L93"], NOT_PARSED_YET)
      [] g.pc = "L93" ->
            IF c = QUOTE THEN Yield([g EXCEPT !.pc = "L109"], PyUnicode(g.value))
            ELSE IF c = BACKSLASH THEN Yield([g EXCEPT !.pc = "L98"], NOT_PARSED_YET)
            ELSE Yield([g EXCEPT !.value = Append(@, c)], NOT_PARSED_YET)
      [] g.pc = "L98" -> string_fsm_escape(g, c)
      [] g.pc = "L103" ->
            LET h == [g EXCEPT !.hexval = Append(@, c)]
            IN  IF Len(h.hexval) < 4 THEN Yield(h, NOT_PARSED_YET)
                ELSE string_fsm_unicode_escape(h)
      \* resumed after its last yield (or after it ended): the body is over
      [] OTHER -> Raise(g, "StopIteration")

---------------------------------------------------------------------------
(* number_fsm *)

number_fsm == [fsm |-> "number_fsm", pc |-> "L133", digits |-> <<>>]

\* Lines 129-131.
build_number(g) == float(g.digits)

\* yield number, with the coroutine g set to that yield, where computing the
\* number may have raised: the exception leaves the coroutine.
yield_or_raise(g, number) ==
    IF IsRaise(number) THEN Raise(g, number.exc) ELSE Yield(g, number)

\* yield build_number()
yield_build_number(g) == yield_or_raise(g, build_number(g))

\* Lines 173-189: the character after the integer or the fractional part.
number_fsm_exponent(g, c) ==
    IF lower(c) = LOWER_E
    THEN Yield([g EXCEPT !.digits = Append(@, c), !.pc = "L176"], NOT_PARSED_YET)
    ELSE Raise(g, "JSONParseError")

\* Lines 181-186: the first exponent digit.
number_fsm_exponent_digits(g, c) ==
    IF ~isdigit(c) THEN Raise(g, "JSONParseError")
    ELSE LET h == [g EXCEPT !.digits = Append(@, c), !.pc = "L186"]
         IN  yield_build_number(h)

\* Lines 177-186: the character after e.
number_fsm_exponent_sign(g, c) ==
    IF c = MINUS
    THEN Yield([g EXCEPT !.digits = Append(@, c), !.pc = "L179"], NOT_PARSED_YET)
    ELSE number_fsm_exponent_digits(g, c)

\* Lines 162-168: a character of the fractional part.
number_fsm_fraction(g, c) ==
    IF ~isdigit(c)
    THEN IF lower(c) = LOWER_E THEN number_fsm_exponent(g, c)
         ELSE Raise(g, "JSONParseError")
    ELSE LET h == [g EXCEPT !.digits = Append(@, c), !.pc = "L168"]
         IN  yield_build_number(h)

\* Lines 155-189: the character that ends the integer part.
number_fsm_after_int(g, c) ==
    IF isdigit(c) THEN Raise(g, "JSONParseError")
    ELSE IF c = DOT
    THEN Yield([g EXCEPT !.digits = Append(@, c), !.pc = "L160"], NOT_PARSED_YET)
    ELSE number_fsm_exponent(g, c)

\* number_fsm_int without the branch for a leading 0 (line 145): every first
\* digit opens the loop of line 146.
number_fsm_int_no_zero_rule(g, c) ==
    IF ~isdigit(c) THEN Raise(g, "JSONParseError")
    ELSE LET h == [g EXCEPT !.digits = Append(@, c)]
         IN  yield_build_number([h EXCEPT !.pc = "L147"])

\* Lines 141-153: the first digit.
number_fsm_int(g, c) ==
    IF ~isdigit(c) THEN Raise(g, "JSONParseError")
    ELSE LET h == [g EXCEPT !.digits = Append(@, c)]
         IN  IF c # ZERO
             THEN yield_build_number([h EXCEPT !.pc = "L147"])
             ELSE Yield([h EXCEPT !.pc = "L153"], PyFloat(0, 0))

number_fsm_send(g, c) ==
    CASE g.pc = "L133" ->
            IF c = MINUS
            THEN Yield([g EXCEPT !.digits = Append(@, c), !.pc = "L136"], NOT_PARSED_YET)
            ELSE number_fsm_int(g, c)
      [] g.pc = "L136" -> number_fsm_int(g, c)
      [] g.pc = "L147" ->
            IF isdigit(c)
            THEN LET h == [g EXCEPT !.digits = Append(@, c)]
                 IN  yield_build_number(h)
            ELSE number_fsm_after_int(g, c)
      [] g.pc = "L153" -> number_fsm_after_int(g, c)
      [] g.pc \in {"L160", "L168"} -> number_fsm_fraction(g, c)
      [] g.pc = "L176" -> number_fsm_exponent_sign(g, c)
      [] g.pc = "L179" -> number_fsm_exponent_digits(g, c)
      [] g.pc = "L186" ->
            IF isdigit(c)
            THEN LET h == [g EXCEPT !.digits = Append(@, c)]
                 IN  yield_build_number(h)
            \* the while loop ends and line 191 yields the number once more
            ELSE yield_build_number([g EXCEPT !.pc = "L191"])
      [] OTHER -> Raise(g, "StopIteration")

---------------------------------------------------------------------------
(* value_fsm, array_fsm, object_fsm *)

\* Lines 294-306.
string_matcher_fsm(match, retval) ==
    [fsm |-> "string_matcher_fsm", pc |-> "L301", match |-> match, retval |-> retval]

string_matcher_fsm_send(g, c) ==
    CASE g.pc = "L301" ->
            IF c = g.match[1]
            THEN LET h == [g EXCEPT !.match = Tail(@)]
                 IN  IF h.match # <<>> THEN Yield(h, NOT_PARSED_YET)
                     ELSE Yield([h EXCEPT !.pc = "L306"], h.retval)
            ELSE Raise(g, "JSONParseError")
      [] OTHER -> Raise(g, "StopIteration")

array_fsm ==
    [fsm |-> "array_fsm", pc |-> "L207", array |-> <<>>, vp |-> UNBOUND, value |-> UNBOUND]

object_fsm ==
    [fsm |-> "object_fsm", pc |-> "L245", obj |-> <<>>, key |-> UNBOUND,
     sp |-> UNBOUND, vp |-> UNBOUND, value |-> UNBOUND]

\* Lines 310-318: the alternatives, each run to its first yield.  `p' is the
\* index in `parsers' of the alternative chosen (0: not bound yet).
value_fsm ==
    [fsm |-> "value_fsm", pc |-> "L321",
     parsers |-> << number_fsm, object_fsm, array_fsm, string_fsm,
                    string_matcher_fsm(Text(<<"n", "u", "l", "l">>), PyNone),
                    string_matcher_fsm(Text(<<"f", "a", "l", "s", "e">>), PyBool(FALSE)),
                    string_matcher_fsm(Text(<<"t", "r", "u", "e">>), PyBool(TRUE)) >>,
     p |-> 0, value |-> UNBOUND]

RECURSIVE send(_, _)
RECURSIVE value_fsm_send(_, _)
RECURSIVE value_fsm_find(_, _, _)
RECURSIVE array_fsm_send(_, _)
RECURSIVE object_fsm_send(_, _)

\* Lines 322-330: the for loop from parsers[i] on.  An alternative that raises
\* JSONParseError is passed over; the first that does not is p.
value_fsm_find(g, c, i) ==
    IF i > Len(g.parsers) THEN Raise(g, "JSONParseError")
    ELSE LET r == send(g.parsers[i], c)
             h == [g EXCEPT !.parsers[i] = r.g]
         IN  IF r.out = Raised("JSONParseError") THEN value_fsm_find(h, c, i + 1)
             ELSE IF IsRaise(r.out) THEN Raise(h, r.out.exc)
             ELSE Yield([h EXCEPT !.p = i, !.value = r.out, !.pc = "L333"], r.out)

value_fsm_send(g, c) ==
    CASE g.pc = "L321" -> value_fsm_find(g, c, 1)
      [] g.pc = "L333" ->
            LET r == send(g.parsers[g.p], c)
                h == [g EXCEPT !.parsers[g.p] = r.g]
            IN  IF IsRaise(r.out) THEN Raise(h, r.out.exc)
                ELSE Yield([h EXCEPT !.value = r.out], r.out)
      [] OTHER -> Raise(g, "StopIteration")

\* array_fsm_element with line 220 testing the delimiter only, without
\* `or value is NOT_PARSED_YET'.
array_fsm_element_delimiter_only(g, c) ==
    IF c \notin {COMMA, RBRACKET}
    THEN LET r == value_fsm_send(g.vp, c)
             h == [g EXCEPT !.vp = r.g]
         IN  IF IsRaise(r.out) THEN Raise(h, r.out.exc)
             ELSE Yield([h EXCEPT !.value = r.out, !.pc = "L222"], NOT_PARSED_YET)
    ELSE LET h == [g EXCEPT !.array = Append(@, g.value)]
         IN  IF c # RBRACKET THEN Yield([h EXCEPT !.pc = "L212"], NOT_PARSED_YET)
             ELSE Yield([h EXCEPT !.pc = "L229"], PyList(h.array))

\* array_fsm_element without the test of line 220: every character, a
\* delimiter too, is sent to the element's value_fsm.
array_fsm_element_always_forward(g, c) ==
    LET r == value_fsm_send(g.vp, c)
        h == [g EXCEPT !.vp = r.g]
    IN  IF IsRaise(r.out) THEN Raise(h, r.out.exc)
        ELSE Yield([h EXCEPT !.value = r.out, !.pc = "L222"], NOT_PARSED_YET)

\* array_fsm_element with None as the marker of line 217 and of the test of
\* line 220: a null element looks like no value yet.
array_fsm_element_none_sentinel(g, c) ==
    IF c \notin {COMMA, RBRACKET} \/ g.value \in {NOT_PARSED_YET, PyNone}
    THEN LET r == value_fsm_send(g.vp, c)
             h == [g EXCEPT !.vp = r.g]
         IN  IF IsRaise(r.out) THEN Raise(h, r.out.exc)
             ELSE Yield([h EXCEPT !.value = r.out, !.pc = "L222"], NOT_PARSED_YET)
    ELSE LET h == [g EXCEPT !.array = Append(@, g.value)]
         IN  IF c # RBRACKET THEN Yield([h EXCEPT !.pc = "L212"], NOT_PARSED_YET)
             ELSE Yield([h EXCEPT !.pc = "L229"], PyList(h.array))

\* Lines 220-229, from the test of the inner while loop with c in hand.
array_fsm_element(g, c) ==
    IF c \notin {COMMA, RBRACKET} \/ g.value = NOT_PARSED_YET
    THEN LET r == value_fsm_send(g.vp, c)
             h == [g EXCEPT !.vp = r.g]
         IN  IF IsRaise(r.out) THEN Raise(h, r.out.exc)
             ELSE Yield([h EXCEPT !.value = r.out, !.pc = "L222"], NOT_PARSED_YET)
    ELSE LET h == [g EXCEPT !.array = Append(@, g.value)]
         IN  IF c # RBRACKET THEN Yield([h EXCEPT !.pc = "L212"], NOT_PARSED_YET)
             ELSE Yield([h EXCEPT !.pc = "L229"], PyList(h.array))

array_fsm_send(g, c) ==
    CASE g.pc = "L207" ->
            IF c # LBRACKET THEN Raise(g, "JSONParseError")
            ELSE Yield([g EXCEPT !.pc = "L212"], NOT_PARSED_YET)
      [] g.pc \in {"L212", "L214"} ->
            IF isspace(c) THEN Yield([g EXCEPT !.pc = "L214"], NOT_PARSED_YET)
            ELSE array_fsm_element([g EXCEPT !.vp = value_fsm, !.value = NOT_PARSED_YET], c)
      [] g.pc = "L222" ->
            IF g.value # NOT_PARSED_YET /\ isspace(c)
            THEN Yield([g EXCEPT !.pc = "L225"], NOT_PARSED_YET)
            ELSE array_fsm_element(g, c)
      [] g.pc = "L225" ->
            IF isspace(c) THEN Yield(g, NOT_PARSED_YET)
            ELSE array_fsm_element(g, c)
      [] OTHER -> Raise(g, "StopIteration")

\* Lines 275-284, from the test of the inner while loop with c in hand.  The
\* test reads `value' only when c is a delimiter; `value' is first assigned
\* on line 276.
object_fsm_value(g, c) ==
    IF c \in {COMMA, RBRACE} /\ g.value = UNBOUND
    THEN Raise(g, "UnboundLocalError")
    ELSE IF c \notin {COMMA, RBRACE} \/ g.value = NOT_PARSED_YET
    THEN LET r == value_fsm_send(g.vp, c)
             h == [g EXCEPT !.vp = r.g]
         IN  IF IsRaise(r.out) THEN Raise(h, r.out.exc)
             ELSE Yield([h EXCEPT !.value = r.out, !.pc = "L277"], NOT_PARSED_YET)
    ELSE LET h == [g EXCEPT !.obj = (g.key.s :> g.value) @@ @]
         IN  IF c # RBRACE THEN Yield([h EXCEPT !.pc = "L250"], NOT_PARSED_YET)
             ELSE Yield([h EXCEPT !.pc = "L284"], PyDict(h.obj))

\* Lines 261-267: white space, then the colon.
object_fsm_colon(g, c) ==
    IF isspace(c) THEN Yield([g EXCEPT !.pc = "L262"], NOT_PARSED_YET)
    ELSE IF c # COLON THEN Raise(g, "JSONParseError")
    ELSE Yield([g EXCEPT !.pc = "L267"], NOT_PARSED_YET)

\* Lines 257-267, from the test of the key loop with c in hand.
object_fsm_key(g, c) ==
    IF g.key = NOT_PARSED_YET
    THEN LET r == string_fsm_send(g.sp, c)
             h == [g EXCEPT !.sp = r.g]
         IN  IF IsRaise(r.out) THEN Raise(h, r.out.exc)
             ELSE Yield([h EXCEPT !.key = r.out, !.pc = "L259"], NOT_PARSED_YET)
    ELSE object_fsm_colon(g, c)

object_fsm_send(g, c) ==
    CASE g.pc = "L245" ->
            IF c # LBRACE THEN Raise(g, "JSONParseError")
            ELSE Yield([g EXCEPT !.pc = "L250"], NOT_PARSED_YET)
      [] g.pc \in {"L250", "L252"} ->
            IF isspace(c) THEN Yield([g EXCEPT !.pc = "L252"], NOT_PARSED_YET)
            ELSE object_fsm_key([g EXCEPT !.key = NOT_PARSED_YET, !.sp = string_fsm], c)
      [] g.pc = "L259" -> object_fsm_key(g, c)
      [] g.pc = "L262" -> object_fsm_colon(g, c)
      [] g.pc \in {"L267", "L269"} ->
            IF isspace(c) THEN Yield([g EXCEPT !.pc = "L269"], NOT_PARSED_YET)
            ELSE object_fsm_value([g EXCEPT !.vp = value_fsm], c)
      [] g.pc = "L277" ->
            IF g.value # NOT_PARSED_YET /\ isspace(c)
            THEN Yield([g EXCEPT !.pc = "L280"], NOT_PARSED_YET)
            ELSE object_fsm_value(g, c)
      [] g.pc = "L280" ->
            IF isspace(c) THEN Yield(g, NOT_PARSED_YET)
            ELSE object_fsm_value(g, c)
      [] OTHER -> Raise(g, "StopIteration")

\* g.send(c) for any of the coroutines.
send(g, c) ==
    CASE g.fsm = "string_fsm" -> string_fsm_send(g, c)
      [] g.fsm = "number_fsm" -> number_fsm_send(g, c)
      [] g.fsm = "string_matcher_fsm" -> string_matcher_fsm_send(g, c)
      [] g.fsm = "array_fsm" -> array_fsm_send(g, c)
      [] g.fsm = "object_fsm" -> object_fsm_send(g, c)
      [] g.fsm = "value_fsm" -> value_fsm_send(g, c)

---------------------------------------------------------------------------
(* The callers: the loop of the module docstring, and loads *)

RUNNING == [t |-> "running"]

\* Bounds of the texts fed: every text up to the length, with string literals
\* of up to MaxStr characters inside arrays and objects.
MaxNumberLen == 6
MaxStringLen == 5
MaxContainerLen == 8
MaxLoadsLen == 5
MaxStr == 1

NumberChars ==
    {Ord[x] : x \in {"0", "1", "2", "-", "+", ".", "e", "E", "a"}}
    \cup {SUPERSCRIPT_TWO, ARABIC_INDIC_DIGIT_ONE}
StringChars ==
    {Ord[x] : x \in {"\"", "\\", "n", "u", "k", "0", "a", "/"}}
    \cup {ARABIC_INDIC_DIGIT_ONE}
ContainerChars ==
    {Ord[x] : x \in {"[", "]", "{", "}", ",", ":", " ", "\"", "1", "a"}}
    \cup {LINE_SEPARATOR}
LoadsChars ==
    {Ord[x] : x \in {"[", "]", "{", "}", ",", ":", " ", "\"", "\\", "0", "1",
                     "-", ".", "e", "n", "u", "l"}}
    \cup {SUPERSCRIPT_TWO}

\* The longest string literal being read in g or in a coroutine g is driving.
RECURSIVE StrLen(_)
StrLen(g) ==
    LET Max(a, b) == IF a > b THEN a ELSE b
        Of(h) == IF h = UNBOUND THEN 0 ELSE StrLen(h)
    IN  CASE g.fsm = "string_fsm" -> Len(g.value)
          [] g.fsm = "value_fsm" -> IF g.p = 0 THEN 0 ELSE StrLen(g.parsers[g.p])
          [] g.fsm = "array_fsm" -> Of(g.vp)
          [] g.fsm = "object_fsm" -> Max(Of(g.sp), Of(g.vp))
          [] OTHER -> 0

\* for c in json: value = parser.send(c) (lines 49-52); an exception leaves
\* the loop.
Send(c) ==
    /\ result = RUNNING
    /\ LET r == send(parser, c)
       IN  /\ parser' = r.g
           /\ ret' = r.out
           /\ result' = IF IsRaise(r.out) THEN r.out ELSE RUNNING
    /\ fed' = Append(fed, c)

InitNumber == parser = number_fsm /\ fed = <<>> /\ ret = UNBOUND /\ result = RUNNING
NextNumber == \E c \in NumberChars : Len(fed) < MaxNumberLen /\ Send(c)
SpecNumber == InitNumber /\ [][NextNumber]_vars

InitString == parser = string_fsm /\ fed = <<>> /\ ret = UNBOUND /\ result = RUNNING
NextString == \E c \in StringChars : Len(fed) < MaxStringLen /\ Send(c)
SpecString == InitString /\ [][NextString]_vars

InitContainer ==
    parser \in {array_fsm, object_fsm} /\ fed = <<>> /\ ret = UNBOUND /\ result = RUNNING
NextContainer ==
    \E c \in ContainerChars :
        Len(fed) < MaxContainerLen /\ Send(c) /\ StrLen(parser') <= MaxStr
SpecContainer == InitContainer /\ [][NextContainer]_vars

\* Texts longer than the bounds that loads is also run on.
LoadsSamples ==
    { Text(<<"[", "n", "u", "l", "l", ",", "f", "a", "l", "s", "e", ",", "0", ",",
             "\"", "\"", "]">>),
      Text(<<"{", "\"", "a", "\"", ":", "1", ",", "}">>),
      Text(<<"{", "\"", "a", "\"", ":", "1", ",", "\"", "b", "\"", ":", "}">>),
      Text(<<"{", " ", "\"", "a", "\"", " ", ":", "1", ",", " ", "\"", "b", "\"",
             ":", " ", "2", "}">>),
      Text(<<"[", " ", "[", "\"", "a", "\"", "]", ",", " ", "1", "]">>),
      Text(<<"\"", "\\", "u", "2", "0", "2", "2", "\"">>),
      Text(<<"\"", "\\", "u", "0", "0", "g", "9", "\"">>),
      Text(<<"3", "5", ".", "2", "e", "1">>),
      Text(<<"1", "e", "-", "0", ".", "2">>),
      Text(<<"t", "r", "u", "e">>),
      Text(<<"f", "a", "l", "s", "e">>),
      Text(<<"{", "\"", "a", "\"", ":", "n", "u", "l", "l", ",", "\"", "b", "\"",
             ":", "0", "}">>),
      Text(<<"{", "\"", "a", "\"", ":", "f", "a", "l", "s", "e", ",", "\"", "b",
             "\"", ":", "\"", "\"", "}">>),
      Text(<<"5", "2", "e", "-", "2">>),
      Text(<<"0", ".", "0", "4">>),
      <<LBRACKET, ARABIC_INDIC_DIGIT_ONE, LINE_SEPARATOR, RBRACKET>>,
      <<QUOTE, BACKSLASH, LOWER_U, ARABIC_INDIC_DIGIT_ONE, ZERO, ZERO,
        ARABIC_INDIC_DIGIT_ONE, QUOTE>>,
      <<DIGIT_ONE_FULL_STOP>>,
      <<LBRACKET, NEW_TAI_LUE_THAM_DIGIT_ONE, DOT, NEW_TAI_LUE_THAM_DIGIT_ONE,
        RBRACKET>>,
      <<QUOTE, BACKSLASH, LOWER_U, NEW_TAI_LUE_THAM_DIGIT_ONE,
        NEW_TAI_LUE_THAM_DIGIT_ONE, NEW_TAI_LUE_THAM_DIGIT_ONE,
        NEW_TAI_LUE_THAM_DIGIT_ONE, QUOTE>>,
      Text(<<"3", "e", "-", "3", "2", "4">>),
      Text(<<"2", "e", "3", "0", "9">>) }

IsPrefix(s, t) == Len(s) <= Len(t) /\ SubSeq(t, 1, Len(s)) = s
SampleChars == UNION {{t[i] : i \in 1..Len(t)} : t \in LoadsSamples}

\* Lines 342-343: one turn of the loop over json.strip(), whose first and
\* last characters are not white space.
LoadsSend(c) ==
    /\ fed = <<>> => ~isspace(c)
    /\ Send(c)

\* loads_end without the test of line 345: whatever the last send gave is
\* returned.
loads_end_returns_last(last) ==
    IF last = UNBOUND THEN Raised("UnboundLocalError") ELSE last

\* Lines 345-348, after a loop over the text s that left `ret'.
loads_end(last) ==
    IF last = UNBOUND THEN Raised("UnboundLocalError")
    ELSE IF last = NOT_PARSED_YET THEN Raised("JSONParseError")
    ELSE last

LoadsReturn ==
    /\ result = RUNNING
    /\ Strip(fed) = fed
    /\ result' = loads_end(ret)
    /\ UNCHANGED <<parser, fed, ret>>

\* The whole of loads(json) at once.
RECURSIVE run(_, _)
run(r, s) ==
    IF s = <<>> \/ IsRaise(r.out) THEN r ELSE run(send(r.g, s[1]), Tail(s))
loads(json) ==
    LET r == run(Yield(value_fsm, UNBOUND), Strip(json))
    IN  IF IsRaise(r.out) THEN r.out ELSE loads_end(r.out)

Init == parser = value_fsm /\ fed = <<>> /\ ret = UNBOUND /\ result = RUNNING
Next ==
    \/ \E c \in LoadsChars \cup SampleChars :
          /\ LoadsSend(c)
          /\ \/ Len(fed) < MaxLoadsLen /\ c \in LoadsChars /\ StrLen(parser') <= MaxStr
             \/ \E t \in LoadsSamples : IsPrefix(fed', t)
    \/ LoadsReturn
Spec == Init /\ [][Next]_vars

\* loads, step by step and at once, agree.
LoadsAgree == (result # RUNNING /\ Strip(fed) = fed) => result = loads(fed)

---------------------------------------------------------------------------
(* The JSON grammar of the specification, as the claims use it: what text  *)
(* is a number / a string / a JSON text, and the value it denotes.  None   *)
(* of this is read from the code.                                          *)

\* -? ( 0 | [1-9][0-9]* ) ( . [0-9]+ )? ( [eE] [-+]? [0-9]+ )?
NumberGrammarStep(q, c) ==
    CASE q = "Start" /\ c = Ord["-"] -> "Minus"
      [] q \in {"Start", "Minus"} /\ c = Ord["0"] -> "Zero"
      [] q \in {"Start", "Minus"} /\ c \in 49..57 -> "Int"
      [] q = "Int" /\ c \in 48..57 -> "Int"
      [] q \in {"Zero", "Int"} /\ c = Ord["."] -> "Dot"
      [] q \in {"Dot", "Frac"} /\ c \in 48..57 -> "Frac"
      [] q \in {"Zero", "Int", "Frac"} /\ c \in {Ord["e"], Ord["E"]} -> "E"
      [] q = "E" /\ c \in {Ord["-"], Ord["+"]} -> "ESign"
      [] q \in {"E", "ESign", "Exp"} /\ c \in 48..57 -> "Exp"
      [] OTHER -> "Rejected"

RECURSIVE NumberGrammar(_)
NumberGrammar(t) ==
    IF t = <<>> THEN "Start" ELSE NumberGrammarStep(NumberGrammar(Front(t)), Last(t))

IsNumberPrefix(t) == NumberGrammar(t) # "Rejected"
IsNumber(t) == NumberGrammar(t) \in {"Zero", "Int", "Frac", "Exp"}

\* The character each escape of the standard set denotes.
EscapeDenotes ==
    (Ord["\""] :> 34) @@ (Ord["\\"] :> 92) @@ (Ord["/"] :> 47) @@ (Ord["b"] :> 8) @@
    (Ord["f"] :> 12) @@ (Ord["n"] :> 10) @@ (Ord["r"] :> 13) @@ (Ord["t"] :> 9)

\* The hexadecimal digits of the grammar: 0-9, a-f, A-F.
IsJsonHexDigit(c) == c \in (48..57) \cup (97..102) \cup (65..70)

\* StringMachine: ExpectOpenQuote -> InBody -> InEscape -> InUnicodeEscape -> Closed.
StringGrammarStep(q, c) ==
    CASE q.st = "ExpectOpenQuote" ->
            [q EXCEPT !.st = IF c = Ord["\""] THEN "InBody" ELSE "Rejected"]
      [] q.st = "InBody" ->
            IF c = Ord["\""] THEN [q EXCEPT !.st = "Closed"]
            ELSE IF c = Ord["\\"] THEN [q EXCEPT !.st = "InEscape"]
            ELSE [q EXCEPT !.acc = Append(@, c)]
      [] q.st = "InEscape" ->
            IF c \in DOMAIN EscapeDenotes
            THEN [q EXCEPT !.st = "InBody", !.acc = Append(@, EscapeDenotes[c])]
            ELSE IF c = Ord["u"] THEN [q EXCEPT !.st = "InUnicodeEscape", !.hex = <<>>]
            ELSE [q EXCEPT !.st = "Rejected"]
      [] q.st = "InUnicodeEscape" ->
            IF ~IsJsonHexDigit(c) THEN [q EXCEPT !.st = "Rejected"]
            ELSE IF Len(q.hex) < 3 THEN [q EXCEPT !.hex = Append(@, c)]
            ELSE [q EXCEPT !.st = "InBody", !.hex = <<>>,
                           !.acc = Append(@, HexValue(Append(q.hex, c)))]
      [] OTHER -> [q EXCEPT !.st = "Rejected"]

StringGrammarStart == [st |-> "ExpectOpenQuote", acc |-> <<>>, hex |-> <<>>]

RECURSIVE StringGrammar(_)
StringGrammar(t) ==
    IF t = <<>> THEN StringGrammarStart
    ELSE StringGrammarStep(StringGrammar(Front(t)), Last(t))

IsJsonSpace(c) == c \in {32, 9, 10, 13}
RECURSIVE SkipSpace(_, _)
SkipSpace(t, i) == IF i <= Len(t) /\ IsJsonSpace(t[i]) THEN SkipSpace(t, i + 1) ELSE i

\* A value read from t[i]: [ok, v: the value, n: the index after it].
RefFail == [ok |-> FALSE, v |-> PyNone, n |-> 0]
RefOk(v, n) == [ok |-> TRUE, v |-> v, n |-> n]
At(t, i, c) == i <= Len(t) /\ t[i] = Ord[c]

RECURSIVE RefStringFrom(_, _, _)
RefStringFrom(t, i, q) ==
    IF q.st = "Closed" THEN RefOk(PyUnicode(q.acc), i)
    ELSE IF q.st = "Rejected" \/ i > Len(t) THEN RefFail
    ELSE RefStringFrom(t, i + 1, StringGrammarStep(q, t[i]))
RefString(t, i) == RefStringFrom(t, i, StringGrammarStart)

RECURSIVE NumberEnd(_, _)
NumberEnd(t, i) ==
    IF i <= Len(t) /\ (t[i] \in 48..57 \/ t[i] \in {Ord[x] : x \in {"-", "+", ".", "e", "E"}})
    THEN NumberEnd(t, i + 1) ELSE i
RefNumber(t, i) ==
    LET n == NumberEnd(t, i)
        d == SubSeq(t, i, n - 1)
    IN  IF IsNumber(d) THEN RefOk(float(d), n) ELSE RefFail

RefLiteral(t, i, word, v) ==
    IF i + Len(word) - 1 <= Len(t) /\ SubSeq(t, i, i + Len(word) - 1) = word
    THEN RefOk(v, i + Len(word)) ELSE RefFail

RECURSIVE RefValue(_, _)
RECURSIVE RefElements(_, _, _)
RECURSIVE RefMembers(_, _, _)

RefElements(t, i, acc) ==
    LET r == RefValue(t, i)
        k == SkipSpace(t, r.n)
    IN  IF ~r.ok THEN RefFail
        ELSE IF At(t, k, ",") THEN RefElements(t, SkipSpace(t, k + 1), Append(acc, r.v))
        ELSE IF At(t, k, "]") THEN RefOk(PyList(Append(acc, r.v)), k + 1)
        ELSE RefFail

RefMembers(t, i, d) ==
    LET key == RefString(t, i)
        colon == SkipSpace(t, key.n)
        r == RefValue(t, SkipSpace(t, colon + 1))
        k == SkipSpace(t, r.n)
        dd == (key.v.s :> r.v) @@ d
    IN  IF ~key.ok \/ ~At(t, colon, ":") THEN RefFail
        ELSE IF ~r.ok THEN RefFail
        ELSE IF At(t, k, ",") THEN RefMembers(t, SkipSpace(t, k + 1), dd)
        ELSE IF At(t, k, "}") THEN RefOk(PyDict(dd), k + 1)
        ELSE RefFail

RefValue(t, i) ==
    IF i > Len(t) THEN RefFail
    ELSE CASE t[i] = Ord["\""] -> RefString(t, i)
           [] t[i] = Ord["-"] \/ t[i] \in 48..57 -> RefNumber(t, i)
           [] t[i] = Ord["n"] -> RefLiteral(t, i, Text(<<"n", "u", "l", "l">>), PyNone)
           [] t[i] = Ord["t"] -> RefLiteral(t, i, Text(<<"t", "r", "u", "e">>), PyBool(TRUE))
           [] t[i] = Ord["f"] ->
                 RefLiteral(t, i, Text(<<"f", "a", "l", "s", "e">>), PyBool(FALSE))
           [] t[i] = Ord["["] ->
                 LET k == SkipSpace(t, i + 1)
                 IN  IF At(t, k, "]") THEN RefOk(PyList(<<>>), k + 1)
                     ELSE RefElements(t, k, <<>>)
           [] t[i] = Ord["{"] ->
                 LET k == SkipSpace(t, i + 1)
                 IN  IF At(t, k, "}") THEN RefOk(PyDict(<<>>), k + 1)
                     ELSE RefMembers(t, k, <<>>)
           [] OTHER -> RefFail

\* The reference decoder on a whole text (no white space around it).
RefDecode(t) ==
    LET r == RefValue(t, 1)
    IN  IF r.ok /\ r.n = Len(t) + 1 THEN r ELSE RefFail
IsValidJSON(t) == RefDecode(t).ok

---------------------------------------------------------------------------
(* Claims.  In every state `ret' is what the send of Last(fed) gave after  *)
(* the sends of Front(fed), and under Spec `result' is what loads gave for *)
(* the text fed.                                                           *)

JSONParseError == Raised("JSONParseError")
Returned == result # RUNNING /\ ~IsRaise(result)

\* C1: loads never returns a value for a text that is not valid JSON.
\* Stated as the claim; the code breaks it (it returns 1.0 for 1e0.).
C1_MalformedNeverReturns == Returned => IsValidJSON(fed)

\* C2: for a valid JSON text loads ends with the value the reference decoder
\* gives.  Stated as the claim; the code breaks it (loads of [] raises).
C2_ValidDecodesAsReference ==
    (result # RUNNING /\ IsValidJSON(fed)) => result = RefDecode(fed).v

\* C3: [ then ] fed to a fresh array_fsm completes with the empty list and no
\* error.  Stated as the claim; the code breaks it (the ] is sent to a fresh
\* value_fsm, which raises JSONParseError).
C3_EmptyArray ==
    (parser.fsm = "array_fsm" /\ fed = Text(<<"[", "]">>))
        => (ret = PyList(<<>>) /\ result = RUNNING)

\* C4: { then } fed to a fresh object_fsm completes with the empty dict and no
\* error.  Stated as the claim; the code breaks it (the } is sent to a fresh
\* string_fsm as the start of a key).
C4_EmptyObject ==
    (parser.fsm = "object_fsm" /\ fed = Text(<<"{", "}">>))
        => (ret = PyDict(<<>>) /\ result = RUNNING)

\* The text before the last character leaves a string just after a backslash.
InEscape == fed # <<>> /\ StringGrammar(Front(fed)).st = "InEscape"

\* C5: in string_fsm a backslash followed by a character outside the escape
\* set raises JSONParseError.  Stated as the claim; the code breaks it (the
\* character is dropped and the string goes on).
C5_UnknownEscapeRejected ==
    (InEscape /\ Last(fed) \notin DOMAIN EscapeDenotes \cup {Ord["u"]})
        => ret = JSONParseError

\* C6: in string_fsm a backslash followed by a character of the standard
\* escape set appends the character the escape denotes and goes back to the
\* string body with NOT_PARSED_YET; the completed string is the one the
\* grammar gives.  Stated as the claim; the code breaks it (nothing is appended).
C6_EscapeAppendsDenoted ==
    /\ (InEscape /\ Last(fed) \in DOMAIN EscapeDenotes)
          => /\ ret = NOT_PARSED_YET
             /\ parser.pc = "L93"
             /\ parser.value = StringGrammar(fed).acc
    /\ (StringGrammar(fed).st = "Closed" /\ StringGrammar(fed).hex = <<>>)
          => ret = PyUnicode(StringGrammar(fed).acc)

\* C7: after e or E number_fsm takes - and + alike with NOT_PARSED_YET, and
\* the exponent digits that follow give the number's value.  Stated as the
\* claim; the code breaks it (+ raises JSONParseError).
C7_ExponentEitherSign ==
    /\ (fed # <<>> /\ NumberGrammar(Front(fed)) = "E"
          /\ Last(fed) \in {Ord["-"], Ord["+"]}) => ret = NOT_PARSED_YET
    /\ NumberGrammar(fed) = "Exp" => ret = float(fed)

\* C8: a character the number grammar cannot accept after the characters fed
\* so far raises JSONParseError on that very send.  Stated as the claim; the
\* code breaks it (1. followed by e gives NOT_PARSED_YET, 1e0 followed by .
\* gives 1.0).
C8_UnacceptableCharRejected ==
    (fed # <<>> /\ IsNumberPrefix(Front(fed)) /\ ~IsNumberPrefix(fed))
        => ret = JSONParseError

\* C9: when the integer part is a bare 0, with or without a - before it, any
\* further digit raises JSONParseError (01, 00, -01), while 0 itself gives 0,
\* a following . or e or E is taken, and 0.01 and 0e1 give their values.
C9_LeadingZeroRule ==
    LET bareZero == {Text(<<"0">>), Text(<<"-", "0">>)}
    IN  /\ fed \in bareZero => (ret = PyFloat(0, 0) /\ result = RUNNING)
        /\ (fed # <<>> /\ Front(fed) \in bareZero /\ isdigit(Last(fed)))
              => ret = JSONParseError
        /\ (fed # <<>> /\ Front(fed) \in bareZero
              /\ Last(fed) \in {Ord["."], Ord["e"], Ord["E"]}) => ret = NOT_PARSED_YET
        /\ fed = Text(<<"0", ".", "0", "1">>) => ret = PyFloat(1, -2)
        /\ fed = Text(<<"0", "e", "1">>) => ret = PyFloat(0, 0)

\* -01 was fed and the 1 raised JSONParseError.
C9_Witness == fed = Text(<<"-", "0", "1">>) /\ ret = JSONParseError

Opening == IF parser.fsm = "array_fsm" THEN Ord["["] ELSE Ord["{"]
Closing == IF parser.fsm = "array_fsm" THEN Ord["]"] ELSE Ord["}"]

\* t is the opening bracket, white space, and a comma.
LeadingComma(t) ==
    t # <<>> /\ Last(t) = Ord[","] /\ RStrip(Front(t)) = <<Opening>>
\* t is a valid array or object with a comma (and white space) put in before
\* its closing bracket; for t without that closing bracket, CommaPending.
CommaPending(t) ==
    LET b == RStrip(t)
    IN  /\ Len(b) >= 3 /\ b[1] = Opening /\ Last(b) = Ord[","]
        /\ b[Len(b) - 1] # Opening
        /\ IsValidJSON(Append(Front(b), Closing))
TrailingComma(t) == t # <<>> /\ Last(t) = Closing /\ CommaPending(Front(t))

\* C10: in array_fsm and object_fsm a comma after the opening bracket raises
\* JSONParseError, and so does the closing bracket that follows a comma
\* ([,] [1,] {,} {"a":1,}), white space in between or not; up to that closing
\* bracket the text after the comma is still being read.
C10_CommaWithoutMember ==
    /\ LeadingComma(fed) => ret = JSONParseError
    /\ TrailingComma(fed) => ret = JSONParseError
    /\ fed = Text(<<"[", "1", ",", "]">>) => ret = JSONParseError
    /\ fed = Text(<<"{", ",">>) => ret = JSONParseError

\* {"a":1,} was fed to object_fsm and the } raised JSONParseError.
C10_Witness ==
    /\ fed = Text(<<"{", "\"", "a", "\"", ":", "1", ",", "}">>)
    /\ TrailingComma(fed)
    /\ ret = JSONParseError

\* t ends in a comma or a closing brace that comes, white space apart, right
\* after the colon of a member: putting a value in before it and closing the
\* object gives a valid text.
MissingValue(t) ==
    /\ Len(t) >= 2 /\ Last(t) \in {Ord[","], Ord["}"]}
    /\ LET b == RStrip(Front(t))
       IN  /\ b # <<>> /\ Last(b) = Ord[":"]
           /\ IsValidJSON(b \o Text(<<"1", "}">>))

\* C11: in object_fsm a colon followed, white space apart, by a comma or a
\* closing brace raises JSONParseError, for the first member and for every
\* later one, and a completed object holds for each key the value decoded from
\* that member's own text.  Stated as the claim; the code breaks it (`value' is
\* not reset per member: {"a":} raises UnboundLocalError, and a later member
\* without a value is stored with the value of the member before it).
C11_MemberWithoutValue ==
    /\ MissingValue(fed) => ret = JSONParseError
    /\ (parser.fsm = "object_fsm" /\ ret.t = "dict")
          => (IsValidJSON(fed) /\ ret = RefDecode(fed).v)

\* t is a complete element or member of an array or object, white space, and
\* a character that is neither white space nor a comma nor a closing bracket.
TokenAfterSpace(t) ==
    /\ Len(t) >= 3
    /\ ~isspace(Last(t)) /\ Last(t) \notin {Ord[","], Ord["]"], Ord["}"]}
    /\ isspace(t[Len(t) - 1])
    /\ Len(RStrip(Front(t))) >= 2
    /\ IsValidJSON(Append(RStrip(Front(t)), Closing))

\* C12: in array_fsm and object_fsm, once white space follows an element the
\* element is over: the next character that is not white space must be a comma
\* or the closing bracket, anything else raises JSONParseError and is not taken
\* as more of the element.  Stated as the claim; the code breaks it (after the
\* white space of [1 2 the 2 is sent to the number_fsm of the 1, which makes it
\* 12).
C12_NoSpaceInsideToken == TokenAfterSpace(fed) => ret = JSONParseError

\* The decoded values that Python takes for false.
Falsy == {PyNone, PyBool(FALSE), PyFloat(0, 0), PyUnicode(<<>>)}

\* The coroutine g is an array_fsm or object_fsm waiting for the character
\* after an element (a member's value) for which the element's own value_fsm
\* `vp' has given v.
ElementGave(g, v) ==
    /\ g.fsm \in {"array_fsm", "object_fsm"}
    /\ g.pc \in {"L222", "L225", "L277", "L280"}
    /\ g.vp.p # 0 /\ g.vp.value = v /\ g.value = v

\* From g, the delimiter c went to h: it was not sent to the element's
\* value_fsm, the element's value was stored, and h waits for the next element
\* or has completed.
Finalized(g, h, c, out) ==
    /\ h.vp = g.vp
    /\ IF g.fsm = "array_fsm"
       THEN /\ h.array = Append(g.array, g.value)
            /\ out = IF c = Ord[","] THEN NOT_PARSED_YET ELSE PyList(h.array)
       ELSE /\ h.obj = (g.key.s :> g.value) @@ g.obj
            /\ out = IF c = Ord[","] THEN NOT_PARSED_YET ELSE PyDict(h.obj)

ClosingOf(g) == IF g.fsm = "array_fsm" THEN Ord["]"] ELSE Ord["}"]

\* loads' value_fsm has chosen an alternative and forwards to it.
Forwarding == parser.fsm = "value_fsm" /\ parser.pc = "L333" /\ parser.p # 0

\* One step of loads in which the array or object at the top has an element
\* that gave null, false, 0 or "" and is sent a comma or its closing bracket.
C13_DelimiterFinalizes ==
    \A v \in Falsy :
        (/\ Forwarding /\ ElementGave(parser.parsers[parser.p], v)
         /\ Len(fed') = Len(fed) + 1
         /\ Last(fed') \in {Ord[","], ClosingOf(parser.parsers[parser.p])})
        => /\ parser'.p = parser.p
           /\ Finalized(parser.parsers[parser.p], parser'.parsers[parser.p],
                        Last(fed'), ret')

\* C13: null, false, 0 and the empty string are never taken for the 'not
\* parsed yet' marker.  In an array or object, the comma or closing bracket
\* after an element that gave one of them finalizes the element and is not
\* forwarded; loads returns None for null, False for false, 0 for 0, the empty
\* string for "", four elements for [null,false,0,""], and the same one layer
\* down for [[0]].
C13_SentinelDistinct ==
    /\ [](result # RUNNING =>
            /\ fed = Text(<<"n", "u", "l", "l">>) => result = PyNone
            /\ fed = Text(<<"f", "a", "l", "s", "e">>) => result = PyBool(FALSE)
            /\ fed = Text(<<"0">>) => result = PyFloat(0, 0)
            /\ fed = Text(<<"\"", "\"">>) => result = PyUnicode(<<>>)
            /\ fed = Text(<<"[", "n", "u", "l", "l", ",", "f", "a", "l", "s", "e",
                            ",", "0", ",", "\"", "\"", "]">>)
                  => result = PyList(<<PyNone, PyBool(FALSE), PyFloat(0, 0),
                                       PyUnicode(<<>>)>>)
            /\ fed = Text(<<"[", "[", "0", "]", "]">>)
                  => result = PyList(<<PyList(<<PyFloat(0, 0)>>)>>))
    /\ [][C13_DelimiterFinalizes]_vars

\* loads returned the four elements of [null,false,0,""].
C13_Witness ==
    /\ fed = Text(<<"[", "n", "u", "l", "l", ",", "f", "a", "l", "s", "e", ",", "0",
                    ",", "\"", "\"", "]">>)
    /\ result = PyList(<<PyNone, PyBool(FALSE), PyFloat(0, 0), PyUnicode(<<>>)>>)

\* C14: no machine is sent a character after it has yielded its final value
\* or after it has raised.  A coroutine resumed in that state is the one case
\* in which send() raises StopIteration (none of the machines raises it
\* itself, none catches it), so the claim is that no send ends in it.  Stated
\* as the claim; the code breaks it (value_fsm forwards every character it is
\* sent, lines 332-333, and loads sends every character of the text: after ""
\* the completed string_fsm is sent the next character).
C14_NoSendAfterTerminal == ret # Raised("StopIteration")

\* C16: whenever loads fails, it fails with JSONParseError.  Stated as the
\* claim; the code breaks it (StopIteration from a completed machine that is
\* sent more, UnboundLocalError from `ret' or `value' read before assignment,
\* ValueError from int(hexval, 16)).
C16_OnlyJSONParseError == IsRaise(result) => result = JSONParseError

\* C15: when loads has sent the last character of a text that is not empty
\* and no send raised, it returns what the last send gave if that is a value
\* (a completed value, or the value so far of a number: 1, 0.04, 52e-2) and
\* raises JSONParseError if the last send gave NOT_PARSED_YET (an open string,
\* -, 1., 0.01e, an open array or object).
C15_EndOfInput ==
    (result # RUNNING /\ fed # <<>> /\ ~IsRaise(ret)) =>
        /\ result = IF ret = NOT_PARSED_YET THEN JSONParseError ELSE ret
        /\ fed = Text(<<"1">>) => result = PyFloat(1, 0)
        /\ fed = Text(<<"0", ".", "0", "4">>) => result = PyFloat(4, -2)
        /\ fed = Text(<<"5", "2", "e", "-", "2">>) => result = PyFloat(52, -2)
        /\ fed \in { Text(<<"\"", "0">>), Text(<<"-">>), Text(<<"1", ".">>),
                     Text(<<"0", ".", "0", "1", "e">>), Text(<<"[", "1">>),
                     Text(<<"{">>) } => result = JSONParseError

\* loads was given 0.01e: the e gave NOT_PARSED_YET and loads raised.
C15_Witness ==
    /\ fed = Text(<<"0", ".", "0", "1", "e">>)
    /\ ret = NOT_PARSED_YET
    /\ result = JSONParseError

\* t is a prefix of a valid number that ends in a digit or in - . e E, and
\* what the claim says the send of its last character gives.
TraceCase(t) ==
    /\ t # <<>> /\ IsNumberPrefix(t)
    /\ isdigit(Last(t)) \/ Last(t) \in {Ord["-"], Ord["."], Ord["e"], Ord["E"]}
TraceOutcome(t) == IF isdigit(Last(t)) THEN float(t) ELSE NOT_PARSED_YET

\* C17: for every prefix of a valid number, the send of its last character
\* gives the value of the prefix if that character is a digit and
\* NOT_PARSED_YET if it is - . e or E (1, 2, ., 2, 1 give 1.0, 12.0,
\* NOT_PARSED_YET, 12.2, 12.21): so for the text fed, and for the text fed and
\* one more character.  Stated as the claim; the code breaks it (the + of 1e+1
\* raises JSONParseError, so the send of the 1 that ends this prefix does not
\* give 10.0).
C17_OutcomeTrace ==
    /\ TraceCase(fed) => ret = TraceOutcome(fed)
    /\ \A c \in NumberChars :
          TraceCase(Append(fed, c)) => send(parser, c).out = TraceOutcome(Append(fed, c))
    /\ fed = Text(<<"1", "2", ".", "2", "1">>) => ret = PyFloat(1221, -2)

\* The array_fsm or object_fsm g waits for the character after characters of
\* a number, and the number_fsm of that element last gave a value.
NumberElementGave(g) ==
    /\ g.pc \in {"L222", "L225", "L277", "L280"}
    /\ g.vp.p = 1 /\ g.vp.parsers[1].fsm = "number_fsm"
    /\ g.vp.value # NOT_PARSED_YET /\ g.value = g.vp.value

\* One send to array_fsm or object_fsm of a comma or the closing bracket while
\* the element is a number that has a value.
C18_DelimiterNotForwarded ==
    (/\ NumberElementGave(parser)
     /\ Len(fed') = Len(fed) + 1
     /\ Last(fed') \in {Ord[","], ClosingOf(parser)})
    => Finalized(parser, parser', Last(fed'), ret')

\* C18: in array_fsm and object_fsm, when the element being read is a number
\* whose last outcome is a value v, a comma or the closing bracket is not sent
\* to the element's machine: the element is stored as v and its machine is
\* left as it was.
C18_DelimiterInspection == [][C18_DelimiterNotForwarded]_vars

\* [1, was fed to array_fsm: the 1.0 is stored and the number_fsm of the 1 is
\* still where the 1 left it, in the loop of the integer part.
C18_Witness ==
    /\ fed = Text(<<"[", "1", ",">>)
    /\ parser.array = <<PyFloat(1, 0)>>
    /\ parser.vp.parsers[1].pc = "L147"
    /\ parser.vp.parsers[1].digits = Text(<<"1">>)

\* The alternative (its place in `parsers') that the grammar names for a
\* first character, 0 if it names none.
Named(c) ==
    CASE c = Ord["-"] \/ c \in 48..57 -> 1
      [] c = Ord["{"] -> 2
      [] c = Ord["["] -> 3
      [] c = Ord["\""] -> 4
      [] c = Ord["n"] -> 5
      [] c = Ord["f"] -> 6
      [] c = Ord["t"] -> 7
      [] OTHER -> 0

\* The alternatives that accept c as their first character.
Accepting(c) ==
    {i \in 1..Len(value_fsm.parsers) : ~IsRaise(send(value_fsm.parsers[i], c).out)}

\* C19: value_fsm dispatches on the first character.  At most one of the seven
\* alternatives accepts it, the one that does is the one the grammar names,
\* and with none value_fsm raises JSONParseError; the later characters go to
\* the chosen alternative only (the others stay as the first character left
\* them) and what it gives is what value_fsm gives.  Stated as the claim; the
\* code breaks it (isdigit() takes the superscript U+00B2 for a digit, float()
\* does not: no alternative accepts it and value_fsm raises ValueError).
C19_DispatchByFirstChar ==
    fed # <<>> =>
        LET first == fed[1]
            others == {i \in 1..Len(value_fsm.parsers) : i # parser.p}
        IN  /\ Cardinality(Accepting(first)) <= 1
            /\ Accepting(first) = IF Named(first) = 0 THEN {} ELSE {Named(first)}
            /\ Accepting(first) = {} => (Len(fed) = 1 /\ ret = JSONParseError)
            /\ Accepting(first) # {} =>
                  /\ parser.p \in Accepting(first)
                  /\ \A i \in others :
                        parser.parsers[i] \in
                            {value_fsm.parsers[i], send(value_fsm.parsers[i], first).g}
                  /\ ~IsRaise(ret) => ret = parser.value

\* The text before the last character leaves a string inside a \u escape,
\* with fewer than four hexadecimal digits read.
InUnicodeEscape == fed # <<>> /\ StringGrammar(Front(fed)).st = "InUnicodeEscape"

\* C20: in string_fsm the four characters after \u are hexadecimal digits, and
\* with the fourth the code point of that value is appended; a character that
\* is not a hexadecimal digit (a quote too) at any of the four places raises
\* JSONParseError.  Stated as the claim; the code breaks it (the four
\* characters are collected whatever they are, lines 102-103, and only then
\* converted: the character that is not a hexadecimal digit gives
\* NOT_PARSED_YET).
C20_UnicodeEscape ==
    /\ (InUnicodeEscape /\ ~IsJsonHexDigit(Last(fed))) => ret = JSONParseError
    /\ (InUnicodeEscape /\ IsJsonHexDigit(Last(fed))) =>
          /\ ret = NOT_PARSED_YET
          /\ StringGrammar(fed).st = "InBody" =>
                (parser.pc = "L93" /\ parser.value = StringGrammar(fed).acc)

===========================================================================
